---- MODULE Spec2Model ----
(***************************************************************************)
(* Transfer networks of soccer clubs: the canonicalization of club names   *)
(* (name_cleaner), the per-season graph builders of src/src/load.py and    *)
(* graph_generator.py, and the aggregate network over a range of seasons.  *)
(*                                                                         *)
(* A string is a sequence of one-character strings.  A graph is a bag of   *)
(* edges [u, v, data], data being the attribute dictionary of the edge.    *)
(***************************************************************************)
EXTENDS Integers, Sequences, FiniteSets, Bags, TLC

VARIABLES
    \* ---- one run of a per-season builder over a table df
    variant,        \* which builder runs
    club_col,       \* df["club_name"].unique(), read before the loop by the basic builder
    pc,             \* "loop" while rows are iterated, "done" once the network is returned,
                    \* "raised" once an exception has left the builder,
                    \* "collapsed" once the financial network was folded into a DiGraph
    seen,           \* the rows of df iterated so far, each handled to its end (a bag)
    G,              \* the graph under construction
    league_clubs,   \* the league clubs collected so far
    g,              \* the collapsed DiGraph of basic_financial_transfer_network_from_df
    raised,         \* the row on which the builder raised an exception, if it did
    \* ---- name_cleaner applied to a raw name, and to its own result
    name, cleaned, recleaned, cpc,
    \* ---- load_full_aggregate_network over start_year..end_year
    start_year, end_year, year, aggG, clubs, keys, seasons, apc

buildVars == <<variant, club_col, pc, seen, G, league_clubs, g, raised>>
cleanVars == <<name, cleaned, recleaned, cpc>>
aggVars   == <<start_year, end_year, year, aggG, clubs, keys, seasons, apc>>
vars      == <<buildVars, cleanVars, aggVars>>

----------------------------------------------------------------------------
(* Bounds of the model *)

\* rows of one table df
MaxRows == 3
\* tokens a raw name given to name_cleaner is made of
MaxTokens == 4

----------------------------------------------------------------------------
(* Python str operations, on sequences of characters *)

UpperChars ==
    <<"A", "B", "C", "D", "E", "F", "G", "H", "I", "J", "K", "L", "M", "N", "O", "P", "Q", "R", "S", "T", "U", "V", "W", "X", "Y", "Z">>
LowerChars ==
    <<"a", "b", "c", "d", "e", "f", "g", "h", "i", "j", "k", "l", "m", "n", "o", "p", "q", "r", "s", "t", "u", "v", "w", "x", "y", "z">>

\* str.lower(), one character
LowerChar(c) ==
    IF \E i \in 1..Len(UpperChars) : UpperChars[i] = c
    THEN LowerChars[CHOOSE i \in 1..Len(UpperChars) : UpperChars[i] = c]
    ELSE c

\* str.lower()
Lower(s) == [i \in 1..Len(s) |-> LowerChar(s[i])]

IsSpace(c) == c = " "

RECURSIVE LStrip(_)
LStrip(s) == IF s # <<>> /\ IsSpace(Head(s)) THEN LStrip(Tail(s)) ELSE s

RECURSIVE RStrip(_)
RStrip(s) ==
    IF s # <<>> /\ IsSpace(s[Len(s)]) THEN RStrip(SubSeq(s, 1, Len(s) - 1)) ELSE s

\* str.strip()
Strip(s) == RStrip(LStrip(s))

\* s.startswith(p)
StartsWith(s, p) == Len(s) >= Len(p) /\ SubSeq(s, 1, Len(p)) = p

\* s.endswith(p)
EndsWith(s, p) == Len(s) >= Len(p) /\ SubSeq(s, Len(s) - Len(p) + 1, Len(s)) = p

\* sub in s
Contains(s, sub) ==
    \E i \in 1..(Len(s) - Len(sub) + 1) : SubSeq(s, i, i + Len(sub) - 1) = sub

\* s.replace(old, new): the non-overlapping occurrences of old, left to right
RECURSIVE Replace(_, _, _)
Replace(s, old, new) ==
    IF Len(s) < Len(old) THEN s
    ELSE IF StartsWith(s, old)
         THEN new \o Replace(SubSeq(s, Len(old) + 1, Len(s)), old, new)
         ELSE <<Head(s)>> \o Replace(Tail(s), old, new)

----------------------------------------------------------------------------
(* name_cleaner of src/src/load.py *)

club_name_mappings ==
    { << <<"l", "e", "i", "c", "e", "s", "t", "e", "r">>,
         <<"l", "e", "i", "c", "e", "s", "t", "e", "r", " ", "c", "i", "t", "y">> >>,
      << <<"s", "h", "e", "f", "f">>,
         <<"s", "h", "e", "f", "f", "i", "e", "l", "d">> >>,
      << <<"w", "e", "s", "t", " ", "b", "r", "o", "m">>,
         <<"w", "e", "s", "t", " ", "b", "r", "o", "m", "w", "i", "c", "h", " ", "a", "l", "b", "i", "o", "n">> >>,
      << <<"w", "o", "l", "v", "e", "s">>,
         <<"w", "o", "l", "v", "e", "r", "h", "a", "m", "p", "t", "o", "n", " ", "w", "a", "n", "d", "e", "r", "e", "r", "s">> >>,
      << <<"b", "r", "i", "g", "h", "t", "o", "n">>,
         <<"b", "r", "i", "g", "h", "t", "o", "n", " ", "&", " ", "h", "o", "v", "e", " ", "a", "l", "b", "i", "o", "n">> >>,
      << <<"n", "o", "r", "w", "i", "c", "h">>,
         <<"n", "o", "r", "w", "i", "c", "h", " ", "c", "i", "t", "y">> >>,
      << <<"t", "o", "t", "t", "e", "n", "h", "a", "m", " ", "h", "o", "t", "s", "p", "u", "r", "s">>,
         <<"t", "o", "t", "t", "e", "n", "h", "a", "m">> >>,
      << <<"t", "o", "t", "t", "e", "n", "h", "a", "m", " ", "h", "o", "t", "s", "p", "u", "r">>,
         <<"t", "o", "t", "t", "e", "n", "h", "a", "m">> >>,
      << <<"s", "p", "u", "r", "s">>,
         <<"t", "o", "t", "t", "e", "n", "h", "a", "m">> >>,
      << <<"w", "e", "s", "t", " ", "h", "a", "m">>,
         <<"w", "e", "s", "t", " ", "h", "a", "m", " ", "u", "n", "i", "t", "e", "d">> >>,
      << <<"w", "i", "g", "a", "n">>,
         <<"w", "i", "g", "a", "n", " ", "a", "t", "h", "l", "e", "t", "i", "c">> >> }

name_exclusions ==
    << <<"a", "f", "c", " ">>,
       <<" ", "a", "f", "c">>,
       <<" ", "f", "c">>,
       <<"f", "c", " ">>,
       <<"c", "l", "u", "b", " ">>,
       <<" ", "c", "l", "u", "b">> >>

\* the spellings of "united" that name_cleaner standardizes
united_spellings ==
    << <<"u", "n", "i", "t", "e", "d">>,
       <<"u", "t", "d", ".">>,
       <<" ", "u", "t", "d">> >>

\* the digits of u_age_re = [uU][1-9]+
AgeDigits == {"1", "2", "3", "4", "5", "6", "7", "8", "9"}

\* the length of the longest prefix of s made of digits 1-9
RECURSIVE DigitRun(_)
DigitRun(s) ==
    IF s # <<>> /\ Head(s) \in AgeDigits THEN 1 + DigitRun(Tail(s)) ELSE 0

\* u_age_re.findall(s): the matches of [uU][1-9]+, leftmost, greedy, non-overlapping
RECURSIVE u_age_findall(_)
u_age_findall(s) ==
    IF s = <<>> THEN <<>>
    ELSE IF Head(s) \in {"u", "U"} /\ DigitRun(Tail(s)) >= 1
         THEN LET k == 1 + DigitRun(Tail(s))
              IN  <<SubSeq(s, 1, k)>> \o u_age_findall(SubSeq(s, k + 1, Len(s)))
         ELSE u_age_findall(Tail(s))

\* for substr in subs: name = name.replace(substr, "")
RECURSIVE RemoveEach(_, _)
RemoveEach(s, subs) ==
    IF subs = <<>> THEN s
    ELSE RemoveEach(Replace(s, Head(subs), <<>>), Tail(subs))

\* name.replace("man ", "manchester ")
ExpandMan(s) ==
    Replace(s, <<"m", "a", "n", " ">>,
               <<"m", "a", "n", "c", "h", "e", "s", "t", "e", "r", " ">>)

\* merge youth teams
StripAgeMarkers(s) == RemoveEach(s, u_age_findall(s))

\* merge B team
DropBTeam(s) ==
    IF EndsWith(s, <<" ", "b">>) THEN SubSeq(s, 1, Len(s) - 2) ELSE s

\* standardize "united" teams
RECURSIVE StandardizeUnited(_, _)
StandardizeUnited(s, subs) ==
    IF subs = <<>> THEN s
    ELSE StandardizeUnited(
             IF Contains(s, Head(subs))
             THEN Replace(s, Head(subs), <<>>) \o <<" ", "u", "n", "i", "t", "e", "d">>
             ELSE s,
             Tail(subs))

\* for substr in name_exclusions: if substr in name: name = name.replace(substr, "")
StripExclusions(s) == RemoveEach(s, name_exclusions)

\* name.replace("  ", " ").strip()
CollapseSpaces(s) == Strip(Replace(s, <<" ", " ">>, <<" ">>))

\* if name in club_name_mappings: name = club_name_mappings[name]
LookupAlias(s, table) ==
    IF \E p \in table : p[1] = s THEN (CHOOSE p \in table : p[1] = s)[2] ELSE s

name_cleaner(raw) ==
    LookupAlias(
        CollapseSpaces(
            StripExclusions(
                StandardizeUnited(
                    DropBTeam(StripAgeMarkers(ExpandMan(Strip(Lower(raw))))),
                    united_spellings))),
        club_name_mappings)

----------------------------------------------------------------------------
(* name_cleaner of graph_generator.py *)

gen_club_name_mappings ==
    { << <<"m", "a", "n">>,
         <<"m", "a", "n", "c", "h", "e", "s", "t", "e", "r">> >>,
      << <<"m", "a", "n", " ", "c", "i", "t", "y">>,
         <<"m", "a", "n", "c", "h", "e", "s", "t", "e", "r", " ", "c", "i", "t", "y">> >>,
      << <<"l", "e", "i", "c", "e", "s", "t", "e", "r">>,
         <<"l", "e", "i", "c", "e", "s", "t", "e", "r", " ", "c", "i", "t", "y">> >>,
      << <<"s", "h", "e", "f", "f">>,
         <<"s", "h", "e", "f", "f", "i", "e", "l", "d">> >>,
      << <<"w", "e", "s", "t", " ", "b", "r", "o", "m">>,
         <<"w", "e", "s", "t", " ", "b", "r", "o", "m", "w", "i", "c", "h", " ", "a", "l", "b", "i", "o", "n">> >>,
      << <<"w", "o", "l", "v", "e", "s">>,
         <<"w", "o", "l", "v", "e", "r", "h", "a", "m", "p", "t", "o", "n", " ", "w", "a", "n", "d", "e", "r", "e", "r", "s">> >> }

gen_name_exclusions ==
    << <<"u", "n", "i", "t", "e", "d">>,
       <<"u", "t", "d", ".">>,
       <<" ", "u", "t", "d">>,
       <<" ", "f", "c">>,
       <<"f", "c", " ">>,
       <<"c", "l", "u", "b", " ">>,
       <<" ", "c", "l", "u", "b">> >>

gen_name_cleaner(raw) ==
    LookupAlias(
        Strip(RemoveEach(RemoveEach(Lower(raw), u_age_findall(Lower(raw))),
                         gen_name_exclusions)),
        gen_club_name_mappings)

----------------------------------------------------------------------------
(* The tables given to the per-season builders *)

\* float("nan"), which pandas puts where a cell of the csv file is empty; a
\* number x is <<x>>
NaN == <<>>
isnan(amount) == amount = NaN

\* A cell of a table is float("nan") where the csv file has nothing, a number
\* <<x>> where it has a number, and text (a sequence of two or more characters
\* in these tables, never the empty text) where it has anything else.
is_float(cell) == cell = NaN \/ (Len(cell) = 1 /\ cell[1] \in Int)
is_str(cell) == ~is_float(cell)

\* int(row["year"])
int(cell) == cell[1]

ManCity   == <<"M", "a", "n", " ", "C", "i", "t", "y">>
ChelseaFC == <<"C", "h", "e", "l", "s", "e", "a", " ", "F", "C">>
Chelsea   == <<"C", "h", "e", "l", "s", "e", "a">>
Spurs     == <<"S", "p", "u", "r", "s">>
RawClubs  == {ManCity, ChelseaFC, Chelsea, Spurs}
\* the clubs of the tables given to the financial builder, and to the full builder
FeeClubs  == {ManCity, ChelseaFC, Chelsea}
FullClubs == {ManCity, ChelseaFC}

Kane      == <<"K", "a", "n", "e">>
KANE      == <<"K", "A", "N", "E">>
Son       == <<"S", "o", "n">>
Players   == {Kane, KANE, Son}

Summer    == <<"S", "u", "m", "m", "e", "r">>
Movements == {"in", "out"}
RawFees   == {NaN, << -10 >>, <<50>>}
FullFees  == {NaN, <<50>>}
\* a fee that is no number
FreeTransfer == <<"F", "r", "e", "e">>

\* start_year: int = 2000
DefaultStartYear == 2000

\* table_to_standard = {club: name_cleaner(club) for club in clubs}
table_to_standard == [c \in RawClubs |-> name_cleaner(c)]
gen_table_to_standard == [c \in RawClubs |-> gen_name_cleaner(c)]

\* a row names two different clubs
ClubPairs(raw) ==
    {p \in raw \X raw : table_to_standard[p[1]] # table_to_standard[p[2]]}

RowsOver(raw) ==
    {[club_name |-> p[1], club_involved_name |-> p[2], transfer_movement |-> m] :
        p \in ClubPairs(raw), m \in Movements}

BasicRows == RowsOver(RawClubs)

FinRows ==
    {[club_name |-> b.club_name, club_involved_name |-> b.club_involved_name,
      transfer_movement |-> b.transfer_movement, fee_cleaned |-> f] :
        b \in RowsOver(FeeClubs), f \in RawFees}

\* tables whose fee_cleaned column holds text in a row
UnparsableFinRows == {[r EXCEPT !.fee_cleaned = FreeTransfer] : r \in FinRows}
FinTable == FinRows \cup UnparsableFinRows

FullRowsOf(years) ==
    {[club_name |-> b.club_name, club_involved_name |-> b.club_involved_name,
      transfer_movement |-> b.transfer_movement, fee_cleaned |-> f[1],
      player_name |-> f[2], year |-> <<f[3]>>, transfer_period |-> Summer] :
        b \in RowsOver(FullClubs), f \in FullFees \X Players \X years}

FullRows == FullRowsOf({DefaultStartYear})

\* tables with a row that has no player, no year, no transfer window, or text
\* for a fee
IncompleteFullRows ==
    UNION {{[r EXCEPT !.player_name = NaN], [r EXCEPT !.year = NaN],
            [r EXCEPT !.transfer_period = NaN]} :
              r \in {x \in FullRows : x.player_name = Kane /\ x.fee_cleaned = <<50>>}}
UnparsableFullRows ==
    {[r EXCEPT !.fee_cleaned = FreeTransfer] :
        r \in {x \in FullRows : x.player_name = Kane}}
FullTable == FullRows \cup IncompleteFullRows \cup UnparsableFullRows

----------------------------------------------------------------------------
(* networkx graphs: a bag of edges [u, v, data] *)

NoData == <<>>

Edge(u, v, data) == [u |-> u, v |-> v, data |-> data]

\* G.has_edge(u, v)
has_edge(graph, u, v) == \E e \in BagToSet(graph) : e.u = u /\ e.v = v

\* the edges u -> v of the graph (the values of G[u][v].items())
edges_between(graph, u, v) == {e \in BagToSet(graph) : e.u = u /\ e.v = v}

\* MultiDiGraph.add_edge(u, v, **data): always a new parallel edge
add_edge(graph, u, v, data) == graph (+) SetToBag({Edge(u, v, data)})

\* DiGraph.add_edge(u, v): a DiGraph holds one edge u -> v at most
di_add_edge(graph, u, v) ==
    IF has_edge(graph, u, v) THEN graph ELSE add_edge(graph, u, v, NoData)

\* G.number_of_edges()
number_of_edges(graph) == BagCardinality(graph)

----------------------------------------------------------------------------
(* basic_transfer_network_from_df (src/src/load.py) and basic_from_pandas  *)
(* (graph_generator.py): one iteration of the loop over df                 *)

\* the edge of a row of the basic builders: the player's way
BasicEdgeEnds(r, standard) ==
    IF r.transfer_movement = "in"
    THEN <<standard[r.club_involved_name], standard[r.club_name]>>
    ELSE <<standard[r.club_name], standard[r.club_involved_name]>>

\* BasicStep without the skip of the rows between league teams
BasicStepNoSkip(graph, lc, r) ==
    LET ends == BasicEdgeEnds(r, table_to_standard)
    IN  IF r.transfer_movement \in {"in", "out"}
        THEN add_edge(graph, ends[1], ends[2], NoData)
        ELSE graph

BasicStep(graph, lc, r) ==
    LET ends == BasicEdgeEnds(r, table_to_standard)
    IN  IF table_to_standard[r.club_involved_name] \in lc
        THEN graph      \* don't double count edges between league teams
        ELSE IF r.transfer_movement \in {"in", "out"}
             THEN add_edge(graph, ends[1], ends[2], NoData)
             ELSE graph

PandasStep(graph, r) ==
    LET ends == BasicEdgeEnds(r, gen_table_to_standard)
    IN  IF r.transfer_movement \in {"in", "out"}
        THEN di_add_edge(graph, ends[1], ends[2])
        ELSE graph

----------------------------------------------------------------------------
(* financial_transfer_network_from_df: one iteration of the loop over df   *)

\* math.isnan(amount) raises TypeError when amount is no float
FinRaises(r) == is_str(r.fee_cleaned)

edge_key == "fee"

\* amount = row["fee_cleaned"]; if math.isnan(amount): amount = 0.0
fee_amount(r) == IF isnan(r.fee_cleaned) THEN 0 ELSE r.fee_cleaned[1]

\* FinEdgeEnds with the edge run the player's way, as the basic builder does
FinEdgeEndsPlayerWay(r) ==
    IF r.transfer_movement = "in"
    THEN <<table_to_standard[r.club_involved_name], table_to_standard[r.club_name]>>
    ELSE <<table_to_standard[r.club_name], table_to_standard[r.club_involved_name]>>

\* the edge of a row of the financial builder: the fee's way
FinEdgeEnds(r) ==
    IF r.transfer_movement = "out"
    THEN <<table_to_standard[r.club_involved_name], table_to_standard[r.club_name]>>
    ELSE <<table_to_standard[r.club_name], table_to_standard[r.club_involved_name]>>

\* FinDuplicate without the comparison of the fees: no row is taken for a duplicate
FinDuplicateNever(graph, u, v, amount) == FALSE

\* check if the edge exists and has the same fee
FinDuplicate(graph, u, v, amount) ==
    /\ has_edge(graph, u, v)
    /\ \E e \in edges_between(graph, u, v) : e.data[edge_key] = amount

FinStep(graph, lc, r) ==
    LET club_name == table_to_standard[r.club_name]
        ends      == FinEdgeEnds(r)
        amount    == fee_amount(r)
        skipped   == [G |-> graph, league_clubs |-> lc]
        added     == [G |-> add_edge(graph, ends[1], ends[2], [fee |-> amount]),
                      league_clubs |-> lc \cup {club_name}]
    IN  IF r.transfer_movement = "out"
        THEN IF FinDuplicate(graph, ends[1], ends[2], amount) THEN skipped ELSE added
        ELSE IF r.transfer_movement = "in" /\ ~has_edge(graph, ends[1], ends[2])
             THEN IF FinDuplicate(graph, ends[1], ends[2], amount)
                  THEN skipped ELSE added
             ELSE [G |-> graph, league_clubs |-> lc \cup {club_name}]

----------------------------------------------------------------------------
(* basic_financial_transfer_network_from_df: the fold into a DiGraph       *)

\* merge_edge that overwrites the fee of the edge u -> v instead of adding to it
merge_edge_overwrite(simple, e) ==
    {x \in simple : ~(x.u = e.u /\ x.v = e.v)}
        \cup {Edge(e.u, e.v, [fee |-> e.data["fee"]])}

\* one iteration of the loop over ftn.G.edges(data=True); g is a set of edges
merge_edge(simple, e) ==
    IF \E x \in simple : x.u = e.u /\ x.v = e.v
    THEN {IF x.u = e.u /\ x.v = e.v
          THEN Edge(x.u, x.v, [fee |-> x.data["fee"] + e.data["fee"]])
          ELSE x : x \in simple}
    ELSE simple \cup {Edge(e.u, e.v, [fee |-> e.data["fee"]])}

RECURSIVE collapse_edges(_, _)
collapse_edges(multi, simple) ==
    IF multi = EmptyBag THEN simple
    ELSE LET e == CHOOSE x \in BagToSet(multi) : TRUE
         IN  collapse_edges(multi (-) SetToBag({e}), merge_edge(simple, e))

----------------------------------------------------------------------------
(* load_full_network_from_df: one iteration of the loop over df            *)

fee_key    == "fee"
year_key   == "year"
window_key == "transfer_period"
player_key == "player"

\* the edge of a row of the full builder: the player's way
FullEdgeEnds(r) ==
    IF r.transfer_movement = "in"
    THEN <<table_to_standard[r.club_involved_name], table_to_standard[r.club_name]>>
    ELSE <<table_to_standard[r.club_name], table_to_standard[r.club_involved_name]>>

\* FullDuplicate without the comparison of the players: no row is a duplicate
FullDuplicateNever(graph, u, v, player) == FALSE

\* FullDuplicate that takes any edge u -> v for the same transfer
FullDuplicateAnyEdge(graph, u, v, player) == has_edge(graph, u, v)

\* FullDuplicate that takes an edge u -> v of another player for the same transfer
FullDuplicateOtherPlayer(graph, u, v, player) ==
    /\ has_edge(graph, u, v)
    /\ \E e \in edges_between(graph, u, v) : e.data[player_key] # player

\* check if the edge exists and has the same player
FullDuplicate(graph, u, v, player) ==
    /\ has_edge(graph, u, v)
    /\ \E e \in edges_between(graph, u, v) : e.data[player_key] = player

\* FullRaises that takes a row without a player
FullRaisesUnlessPlayer(r) ==
    \/ r.year = NaN
    \/ is_float(r.transfer_period)
    \/ is_str(r.fee_cleaned)

\* row["player_name"].lower() and row["transfer_period"].lower() raise
\* AttributeError on a float, int(row["year"]) raises ValueError on nan, and
\* math.isnan(amount) raises TypeError on text
FullRaises(r) ==
    \/ is_float(r.player_name)
    \/ r.year = NaN
    \/ is_float(r.transfer_period)
    \/ is_str(r.fee_cleaned)

FullStep(graph, lc, r) ==
    LET club_name == table_to_standard[r.club_name]
        ends      == FullEdgeEnds(r)
        amount    == fee_amount(r)
        player    == Lower(r.player_name)
        window    == Lower(r.transfer_period)
        data      == [fee |-> amount, year |-> int(r.year),
                      transfer_period |-> window, player |-> player]
    IN  IF r.transfer_movement \in {"in", "out"}
        THEN IF FullDuplicate(graph, ends[1], ends[2], player)
             THEN [G |-> graph, league_clubs |-> lc]
             ELSE [G |-> add_edge(graph, ends[1], ends[2], data),
                   league_clubs |-> lc \cup {club_name}]
        ELSE [G |-> graph, league_clubs |-> lc \cup {club_name}]

\* load_full_network_from_df over a whole table (a sequence of rows)
RECURSIVE FullLoop(_, _, _)
FullLoop(graph, lc, df) ==
    IF df = <<>> THEN [G |-> graph, league_clubs |-> lc]
    ELSE LET s == FullStep(graph, lc, Head(df))
         IN  FullLoop(s.G, s.league_clubs, Tail(df))

load_full_network_from_df(df) == FullLoop(EmptyBag, {}, df)

\* FullTransferNetwork(G, league_clubs, ..., player_key, fee_key, year_key, window_key)
FullTransferNetwork(df) ==
    LET s == load_full_network_from_df(df)
    IN  [G |-> s.G, league_clubs |-> s.league_clubs,
         player_key |-> player_key, fee_key |-> fee_key,
         year_key |-> year_key, window_key |-> window_key]

----------------------------------------------------------------------------
(* load_full_aggregate_network: one iteration of the loop over the years   *)

\* seasons of a range, and rows of one season's table
MaxSeasons == 3
MaxSeasonRows == 1

\* player_key = None ... before the first season
None == "None"
NoKeys ==
    [player_key |-> None, fee_key |-> None, year_key |-> None, window_key |-> None]

\* the rows of data/{year}/{league}.csv
SeasonRows(y) ==
    {r \in FullRowsOf({y}) : r.player_name = Kane /\ r.fee_cleaned = <<50>>}

SeasonTables(y) ==
    UNION {[1..k -> SeasonRows(y)] : k \in 0..MaxSeasonRows}

\* G.add_edge(u, v, player=data[player_key], fee=data[fee_key],
\*            year=data[year_key], transfer_window=data[window_key])
aggregate_edge(e, k) ==
    Edge(e.u, e.v, [player |-> e.data[k.player_key], fee |-> e.data[k.fee_key],
                    year |-> e.data[k.year_key],
                    transfer_window |-> e.data[k.window_key]])

\* combine_graphs into a graph that keeps one edge per ordered pair of clubs
RECURSIVE combine_graphs_simple(_, _, _)
combine_graphs_simple(graph, season, k) ==
    IF season = EmptyBag THEN graph
    ELSE LET e == CHOOSE x \in BagToSet(season) : TRUE
             next == IF has_edge(graph, e.u, e.v) THEN graph
                     ELSE graph (+) SetToBag({aggregate_edge(e, k)})
         IN  combine_graphs_simple(next, season (-) SetToBag({e}), k)

\* for u, v, data in year_ftn.G.edges(data=True): G.add_edge(...)
RECURSIVE combine_graphs(_, _, _)
combine_graphs(graph, season, k) ==
    IF season = EmptyBag THEN graph
    ELSE LET e == CHOOSE x \in BagToSet(season) : TRUE
         IN  combine_graphs(graph (+) SetToBag({aggregate_edge(e, k)}),
                            season (-) SetToBag({e}), k)

\* AggregateYear that skips a season's edge when the aggregate already holds an
\* edge u -> v of the same player
AggregateYearDedup(st, y, first, year_ftn) ==
    LET k == IF y = first
             THEN [player_key |-> year_ftn.player_key, fee_key |-> year_ftn.fee_key,
                   year_key |-> year_ftn.year_key, window_key |-> year_ftn.window_key]
             ELSE st.keys
        fresh == [e \in {x \in BagToSet(year_ftn.G) :
                            ~\E a \in BagToSet(st.G) :
                                /\ a.u = x.u /\ a.v = x.v
                                /\ a.data["player"] = x.data[k.player_key]}
                    |-> year_ftn.G[e]]
    IN  [G     |-> combine_graphs(st.G, fresh, k),
         clubs |-> st.clubs (+) SetToBag(year_ftn.league_clubs),
         keys  |-> k]

\* the body of the loop for one year, year_ftn being that season's network
AggregateYear(st, y, first, year_ftn) ==
    LET k == IF y = first
             THEN [player_key |-> year_ftn.player_key, fee_key |-> year_ftn.fee_key,
                   year_key |-> year_ftn.year_key, window_key |-> year_ftn.window_key]
             ELSE st.keys
    IN  [G     |-> combine_graphs(st.G, year_ftn.G, k),
         clubs |-> st.clubs (+) SetToBag(year_ftn.league_clubs),
         keys  |-> k]

\* clubs = list(set(clubs))
setify(list) == SetToBag(BagToSet(list))

\* load_full_aggregate_network(first, last) over the season networks ftns
RECURSIVE AggregateLoop(_, _, _, _, _)
AggregateLoop(st, y, first, last, ftns) ==
    IF y > last THEN [G |-> st.G, clubs |-> setify(st.clubs), keys |-> st.keys]
    ELSE AggregateLoop(AggregateYear(st, y, first, ftns[y]), y + 1, first, last, ftns)

load_full_aggregate_network(first, last, ftns) ==
    AggregateLoop([G |-> EmptyBag, clubs |-> EmptyBag, keys |-> NoKeys],
                  first, first, last, ftns)

----------------------------------------------------------------------------
(* Specification of the per-season builders *)

Variants == {"basic", "basic_from_pandas", "financial", "full"}

CleanIdle ==
    /\ name = <<>>
    /\ cleaned = <<>>
    /\ recleaned = <<>>
    /\ cpc = "idle"

AggIdle ==
    /\ start_year = DefaultStartYear
    /\ end_year = DefaultStartYear
    /\ year = DefaultStartYear
    /\ aggG = EmptyBag
    /\ clubs = EmptyBag
    /\ keys = NoKeys
    /\ seasons = <<>>
    /\ apc = "idle"

BuildIdle ==
    /\ variant = "none"
    /\ club_col = {}
    /\ pc = "idle"
    /\ seen = EmptyBag
    /\ G = EmptyBag
    /\ league_clubs = {}
    /\ g = {}
    /\ raised = {}

Init ==
    /\ variant \in Variants
    /\ club_col \in IF variant = "basic" THEN SUBSET RawClubs ELSE {{}}
    /\ pc = "loop"
    /\ seen = EmptyBag
    /\ G = EmptyBag
    \* league_clubs = [name_cleaner(club) for club in df["club_name"].unique()]
    /\ league_clubs = {table_to_standard[c] : c \in club_col}
    /\ g = {}
    /\ raised = {}
    /\ CleanIdle
    /\ AggIdle

\* for idx, row in df.iterrows(): the next row r of the table
Iterate(r) ==
    /\ pc = "loop"
    /\ BagCardinality(seen) < MaxRows
    /\ seen' = seen (+) SetToBag({r})
    /\ UNCHANGED <<variant, club_col, pc, g, raised, cleanVars, aggVars>>

\* an exception raised while the row r is handled leaves the builder
Raise(r) ==
    /\ pc = "loop"
    /\ BagCardinality(seen) < MaxRows
    /\ pc' = "raised"
    /\ raised' = {r}
    /\ UNCHANGED <<variant, club_col, seen, G, league_clubs, g, cleanVars, aggVars>>

BasicRow ==
    \E r \in BasicRows :
        /\ variant = "basic"
        /\ r.club_name \in club_col
        /\ Iterate(r)
        /\ G' = BasicStep(G, league_clubs, r)
        /\ UNCHANGED league_clubs

PandasRow ==
    \E r \in BasicRows :
        /\ variant = "basic_from_pandas"
        /\ Iterate(r)
        /\ G' = PandasStep(G, r)
        /\ UNCHANGED league_clubs

FinRow ==
    \E r \in FinTable :
        /\ variant = "financial"
        /\ ~FinRaises(r)
        /\ Iterate(r)
        /\ G' = FinStep(G, league_clubs, r).G
        /\ league_clubs' = FinStep(G, league_clubs, r).league_clubs

FinRowRaises ==
    \E r \in FinTable :
        /\ variant = "financial"
        /\ FinRaises(r)
        /\ Raise(r)

FullRow ==
    \E r \in FullTable :
        /\ variant = "full"
        /\ ~FullRaises(r)
        /\ Iterate(r)
        /\ G' = FullStep(G, league_clubs, r).G
        /\ league_clubs' = FullStep(G, league_clubs, r).league_clubs

FullRowRaises ==
    \E r \in FullTable :
        /\ variant = "full"
        /\ FullRaises(r)
        /\ Raise(r)

\* the table is exhausted: return the network
Return ==
    /\ pc = "loop"
    /\ variant = "basic" => {r.club_name : r \in BagToSet(seen)} = club_col
    /\ pc' = "done"
    /\ UNCHANGED <<variant, club_col, seen, G, league_clubs, g, raised, cleanVars, aggVars>>

\* basic_financial_transfer_network_from_df, after its call of the financial builder
Collapse ==
    /\ variant = "financial"
    /\ pc = "done"
    /\ g' = collapse_edges(G, {})
    /\ pc' = "collapsed"
    /\ UNCHANGED <<variant, club_col, seen, G, league_clubs, raised, cleanVars, aggVars>>

Next ==
    \/ BasicRow \/ PandasRow \/ FinRow \/ FinRowRaises \/ FullRow \/ FullRowRaises
    \/ Return \/ Collapse

Spec == Init /\ [][Next]_vars

----------------------------------------------------------------------------
(* Specification of name_cleaner *)

Tokens ==
    { <<"a">>, <<"b">>, <<" ">>, <<" ", " ">>, <<" ", "b">>, <<"U", "1">>, <<"0">>,
      <<"f", "c">>, <<"m", "a", "n">>, <<"u", "t", "d">> }

RECURSIVE Flatten(_)
Flatten(ts) == IF ts = <<>> THEN <<>> ELSE Head(ts) \o Flatten(Tail(ts))

RawNames == {Flatten(ts) : ts \in UNION {[1..k -> Tokens] : k \in 0..MaxTokens}}

CleanInit ==
    /\ name \in RawNames
    /\ cleaned = <<>>
    /\ recleaned = <<>>
    /\ cpc = "raw"
    /\ BuildIdle
    /\ AggIdle

\* team = name_cleaner(row["Team"])
Clean ==
    /\ cpc = "raw"
    /\ cleaned' = name_cleaner(name)
    /\ cpc' = "cleaned"
    /\ UNCHANGED <<name, recleaned, buildVars, aggVars>>

\* name_map = {club: name_cleaner(club) for club in ranks[year]}
CleanAgain ==
    /\ cpc = "cleaned"
    /\ recleaned' = name_cleaner(cleaned)
    /\ cpc' = "recleaned"
    /\ UNCHANGED <<name, cleaned, buildVars, aggVars>>

CleanNext == Clean \/ CleanAgain

SpecClean == CleanInit /\ [][CleanNext]_vars

----------------------------------------------------------------------------
(* Specification of load_full_aggregate_network *)

AggInit ==
    /\ start_year = DefaultStartYear
    /\ end_year \in (DefaultStartYear - 1)..(DefaultStartYear + MaxSeasons - 1)
    /\ year = start_year
    /\ aggG = EmptyBag
    /\ clubs = EmptyBag
    /\ keys = NoKeys
    /\ seasons = <<>>
    /\ apc = "loop"
    /\ BuildIdle
    /\ CleanIdle

\* one year: read the table, build its network, fold it into the aggregate
AggYear ==
    \E df \in SeasonTables(year) :
        LET year_ftn == FullTransferNetwork(df)
            st == AggregateYear([G |-> aggG, clubs |-> clubs, keys |-> keys],
                                year, start_year, year_ftn)
        IN  /\ apc = "loop"
            /\ year <= end_year
            /\ aggG' = st.G
            /\ clubs' = st.clubs
            /\ keys' = st.keys
            /\ seasons' = (year :> year_ftn) @@ seasons
            /\ year' = year + 1
            /\ UNCHANGED <<start_year, end_year, apc, buildVars, cleanVars>>

\* the range is exhausted: setify the clubs and return the aggregate network
AggReturn ==
    /\ apc = "loop"
    /\ year > end_year
    /\ clubs' = setify(clubs)
    /\ apc' = "done"
    /\ UNCHANGED <<start_year, end_year, year, aggG, keys, seasons, buildVars, cleanVars>>

AggNext == AggYear \/ AggReturn

SpecAgg == AggInit /\ [][AggNext]_vars

----------------------------------------------------------------------------
(* Properties of the per-season builders *)

\* the distinct rows iterated so far
Rows == BagToSet(seen)

\* the number of edges u -> v of the graph whose attribute key has the value val
EdgeCount(graph, u, v, key, val) ==
    BagCardinality([e \in {x \in edges_between(graph, u, v) : x.data[key] = val}
                        |-> graph[e]])

\* the edges the step from graph to next has added
NewEdges(graph, next) ==
    {e \in BagToSet(next) : CopiesIn(e, next) > CopiesIn(e, graph)}

\* the step iterates row r
Iterates(r) == seen' = seen (+) SetToBag({r})

ManchesterCity ==
    <<"m", "a", "n", "c", "h", "e", "s", "t", "e", "r", " ", "c", "i", "t", "y">>
ChelseaKey == <<"c", "h", "e", "l", "s", "e", "a">>

\* {Man City, Chelsea FC, in, 50} and {Chelsea FC, Man City, out, 50}
SampleIn ==
    [club_name |-> ManCity, club_involved_name |-> ChelseaFC,
     transfer_movement |-> "in", fee_cleaned |-> <<50>>]
SampleOut ==
    [club_name |-> ChelseaFC, club_involved_name |-> ManCity,
     transfer_movement |-> "out", fee_cleaned |-> <<50>>]

\* an 'in' row and an 'out' row that list the same transaction
SameTransaction(ri, ro) ==
    /\ ri.transfer_movement = "in"
    /\ ro.transfer_movement = "out"
    /\ table_to_standard[ri.club_name] = table_to_standard[ro.club_involved_name]
    /\ table_to_standard[ri.club_involved_name] = table_to_standard[ro.club_name]
    /\ fee_amount(ri) = fee_amount(ro)

\* C1: financial builder: once the 'in' row of the buying club and the 'out'
\* row of the selling club of one transaction (same canonical pair, same fee)
\* have both been iterated, in either order and after any other rows, the graph
\* holds exactly one edge between that pair with that fee.
C1_OneEdgePerTransaction ==
    variant = "financial" =>
        \A ri \in Rows, ro \in Rows :
            SameTransaction(ri, ro) =>
                EdgeCount(G, FinEdgeEnds(ri)[1], FinEdgeEnds(ri)[2],
                          "fee", fee_amount(ri)) = 1

\* both rows of a transaction were iterated after a row of another fee between
\* the same clubs: two parallel edges, three rows
C1_Witness ==
    /\ variant = "financial"
    /\ BagCardinality(seen) = 3
    /\ number_of_edges(G) = 2
    /\ \E ri \in Rows, ro \in Rows :
          /\ SameTransaction(ri, ro)
          /\ Cardinality(edges_between(G, FinEdgeEnds(ri)[1], FinEdgeEnds(ri)[2])) = 2

\* the way of the player: counterpart -> row club for 'in', row club ->
\* counterpart for 'out'
PlayerWay(r, standard) ==
    IF r.transfer_movement = "in"
    THEN <<standard[r.club_involved_name], standard[r.club_name]>>
    ELSE <<standard[r.club_name], standard[r.club_involved_name]>>

\* the way of the fee: row club -> counterpart for 'in', counterpart -> row
\* club for 'out'
FeeWay(r, standard) ==
    IF r.transfer_movement = "in"
    THEN <<standard[r.club_name], standard[r.club_involved_name]>>
    ELSE <<standard[r.club_involved_name], standard[r.club_name]>>

StandardOf(v) ==
    IF v = "basic_from_pandas" THEN gen_table_to_standard ELSE table_to_standard

\* every edge the step has added for row r runs as way(r) says
AddsAlong(r, ends) ==
    \A e \in NewEdges(G, G') : e.u = ends[1] /\ e.v = ends[2]

\* C2 (as amended): an edge added for a row by the basic builders and by the
\* full builder runs the player's way (counterpart -> row club for 'in', row
\* club -> counterpart for 'out'); an edge added by the financial builder runs
\* the fee's way (row club -> counterpart for 'in', counterpart -> row club for
\* 'out'); the rows {Man City, Chelsea FC, in, 50} and {Chelsea FC, Man City,
\* out, 50} give the single financial edge manchester city -> chelsea, fee 50.
C2_EdgeDirection ==
    [][ /\ \A r \in BagToSet(seen') :
              Iterates(r) =>
                  AddsAlong(r, IF variant = "financial"
                               THEN FeeWay(r, table_to_standard)
                               ELSE PlayerWay(r, StandardOf(variant)))
        /\ (variant = "financial" /\ seen' = SetToBag({SampleIn, SampleOut})) =>
              G' = SetToBag({Edge(ManchesterCity, ChelseaKey, [fee |-> 50])})
      ]_vars

\* C2 (as claimed): in every variant the edge runs the player's way, and the
\* two sample rows give the single financial edge chelsea -> manchester city.
C2_Original ==
    [][ /\ \A r \in BagToSet(seen') :
              Iterates(r) => AddsAlong(r, PlayerWay(r, StandardOf(variant)))
        /\ (variant = "financial" /\ seen' = SetToBag({SampleIn, SampleOut})) =>
              G' = SetToBag({Edge(ChelseaKey, ManchesterCity, [fee |-> 50])})
      ]_vars

\* the financial builder has iterated the two sample rows
C2_Witness ==
    /\ variant = "financial"
    /\ seen = SetToBag({SampleIn, SampleOut})
    /\ number_of_edges(G) = 1

\* the counterpart of the row is no league club
CounterpartOutside(r) == table_to_standard[r.club_involved_name] \notin league_clubs

\* the number of iterated rows, repeated rows counted, whose counterpart is no
\* league club
RowsOutsideLeague ==
    BagCardinality([r \in {x \in Rows : CounterpartOutside(x)} |-> seen[r]])

\* C3 (as amended): basic_transfer_network_from_df holds one edge for every
\* iterated row whose canonicalized counterpart is not a league club (rows
\* with a league club as counterpart are dropped, repeated pairs are kept);
\* basic_from_pandas holds one edge for every distinct directed pair of
\* canonicalized clubs among the iterated rows.
C3_BasicEdgeCount ==
    /\ variant = "basic" => number_of_edges(G) = RowsOutsideLeague
    /\ variant = "basic_from_pandas" =>
          /\ number_of_edges(G)
               = Cardinality({PlayerWay(r, gen_table_to_standard) : r \in Rows})
          /\ \A e \in BagToSet(G) : CopiesIn(e, G) = 1

\* C3 (as claimed): the graph returned by a basic builder has as many edges as
\* the table has rows.
C3_Original ==
    (variant \in {"basic", "basic_from_pandas"} /\ pc = "done") =>
        number_of_edges(G) = BagCardinality(seen)

\* a returned basic network with a dropped row, a kept row and a repeated pair
C3_Witness ==
    /\ variant = "basic"
    /\ pc = "done"
    /\ BagCardinality(seen) = 3
    /\ number_of_edges(G) = 2
    /\ \E e \in BagToSet(G) : CopiesIn(e, G) = 2

\* the attribute that tells parallel edges apart
DisambiguatingKey == IF variant = "financial" THEN "fee" ELSE "player"

\* C4: after any prefix of the rows the financial graph holds at most one edge
\* for each (u, v, fee) and the full graph at most one for each (u, v, player).
C4_OneEdgePerKey ==
    variant \in {"financial", "full"} =>
        \A e \in BagToSet(G) :
            EdgeCount(G, e.u, e.v, DisambiguatingKey, e.data[DisambiguatingKey]) <= 1

\* a full graph with two parallel edges, built from three rows, one skipped
C4_Witness ==
    /\ variant = "full"
    /\ BagCardinality(seen) = 3
    /\ number_of_edges(G) = 2
    /\ \E e1 \in BagToSet(G), e2 \in BagToSet(G) :
          e1 # e2 /\ e1.u = e2.u /\ e1.v = e2.v

\* C5: full builder: two iterated rows with the same directed club pair and
\* different lowercased player names each have their own edge in the graph,
\* also when their fees are equal.
C5_PlayersKeepOwnEdges ==
    variant = "full" =>
        \A r1 \in Rows, r2 \in Rows :
            (/\ FullEdgeEnds(r1) = FullEdgeEnds(r2)
             /\ Lower(r1.player_name) # Lower(r2.player_name)) =>
                /\ EdgeCount(G, FullEdgeEnds(r1)[1], FullEdgeEnds(r1)[2],
                             "player", Lower(r1.player_name)) = 1
                /\ EdgeCount(G, FullEdgeEnds(r1)[1], FullEdgeEnds(r1)[2],
                             "player", Lower(r2.player_name)) = 1

\* two rows of different players, same pair, same fee: two edges
C5_Witness ==
    /\ variant = "full"
    /\ \E r1 \in Rows, r2 \in Rows :
          /\ FullEdgeEnds(r1) = FullEdgeEnds(r2)
          /\ Lower(r1.player_name) # Lower(r2.player_name)
          /\ r1.fee_cleaned = r2.fee_cleaned
          /\ Cardinality(edges_between(G, FullEdgeEnds(r1)[1], FullEdgeEnds(r1)[2])) = 2

\* the sum of the fees of the edges of a bag of edges
RECURSIVE SumFees(_)
SumFees(graph) ==
    IF graph = EmptyBag THEN 0
    ELSE LET e == CHOOSE x \in BagToSet(graph) : TRUE
         IN  e.data["fee"] + SumFees(graph (-) SetToBag({e}))

\* the edges u -> v of the multigraph, as a bag
Parallel(graph, u, v) == [e \in edges_between(graph, u, v) |-> graph[e]]

Nodes == {table_to_standard[c] : c \in RawClubs}

\* C6: the collapsed graph has at most one edge per ordered pair, an edge
\* u -> v exactly when the financial multigraph has one, and its fee is the
\* sum of the fees of all financial edges u -> v.
C6_CollapsedSums ==
    (variant = "financial" /\ pc = "collapsed") =>
        \A u \in Nodes, v \in Nodes :
            LET between == {x \in g : x.u = u /\ x.v = v}
            IN  /\ Cardinality(between) <= 1
                /\ (between # {}) <=> has_edge(G, u, v)
                /\ \A x \in between : x.data["fee"] = SumFees(Parallel(G, u, v))

\* a collapsed edge that sums several parallel financial edges
C6_Witness ==
    /\ variant = "financial"
    /\ pc = "collapsed"
    /\ \E x \in g : BagCardinality(Parallel(G, x.u, x.v)) = 3

\* C7 (as claimed): league_clubs of the financial and of the full builder is
\* the set of canonicalized club_name values of all iterated rows.
C7_LeagueClubsOfAllRows ==
    variant \in {"financial", "full"} =>
        league_clubs = {table_to_standard[r.club_name] : r \in Rows}

----------------------------------------------------------------------------
(* Properties of name_cleaner *)

\* C8 (as claimed): name_cleaner is idempotent: cleaning a cleaned name
\* changes nothing.
C8_Idempotent == cpc = "recleaned" => recleaned = cleaned

----------------------------------------------------------------------------
(* Properties of load_full_aggregate_network *)

\* C9 (as claimed): in every edge of the aggregate network the attributes
\* named by the network's player_key, fee_key, year_key and window_key exist
\* and hold the player, fee, year and window of an edge u -> v of a season.
C9_KeysReadAttributes ==
    \A e \in BagToSet(aggG) :
        /\ {keys.player_key, keys.fee_key, keys.year_key, keys.window_key}
               \subseteq DOMAIN e.data
        /\ \E y \in DOMAIN seasons :
              \E s \in BagToSet(seasons[y].G) :
                  /\ s.u = e.u /\ s.v = e.v
                  /\ e.data[keys.player_key] = s.data[player_key]
                  /\ e.data[keys.fee_key] = s.data[fee_key]
                  /\ e.data[keys.year_key] = s.data[year_key]
                  /\ e.data[keys.window_key] = s.data[window_key]

\* C10: the aggregate of start_year..end_year has the edges (as a multiset,
\* with their attributes) and the league clubs of the aggregate of
\* start_year..mid merged with the aggregate of mid+1..end_year, for every mid.
C10_FoldAssociative ==
    apc = "done" =>
        \A mid \in start_year..(end_year - 1) :
            LET a == load_full_aggregate_network(start_year, mid, seasons)
                b == load_full_aggregate_network(mid + 1, end_year, seasons)
            IN  /\ aggG = a.G (+) b.G
                /\ BagToSet(clubs) = BagToSet(a.clubs) \cup BagToSet(b.clubs)

\* an aggregate of three seasons, each with a transfer of its own
C10_Witness ==
    /\ apc = "done"
    /\ end_year = start_year + 2
    /\ number_of_edges(aggG) = 3
    /\ Cardinality(BagToSet(clubs)) = 2

\* the edges of the season networks of first..last, counted with multiplicity
RECURSIVE SeasonEdgeCount(_, _)
SeasonEdgeCount(first, last) ==
    IF first > last THEN 0
    ELSE number_of_edges(seasons[first].G) + SeasonEdgeCount(first + 1, last)

\* C11: the aggregate network holds as many edges as the season networks
\* merged so far hold together: no season's edge is dropped, not even when an
\* earlier season has an edge u -> v of the same player.
C11_AggregateKeepsEveryEdge ==
    number_of_edges(aggG) = SeasonEdgeCount(start_year, year - 1)

\* two seasons with an edge u -> v of the same player each, both aggregated
C11_Witness ==
    /\ apc = "done"
    /\ \E y1 \in DOMAIN seasons, y2 \in DOMAIN seasons :
          /\ y1 < y2
          /\ \E s1 \in BagToSet(seasons[y1].G), s2 \in BagToSet(seasons[y2].G) :
                /\ s1.u = s2.u /\ s1.v = s2.v
                /\ s1.data[player_key] = s2.data[player_key]
                /\ \E a1 \in BagToSet(aggG), a2 \in BagToSet(aggG) :
                      /\ a1.u = s1.u /\ a1.v = s1.v /\ a2.u = s1.u /\ a2.v = s1.v
                      /\ a1.data["player"] = a2.data["player"]
                      /\ a1.data["year"] = y1 /\ a2.data["year"] = y2

----------------------------------------------------------------------------
(* Fees, incomplete rows and empty ranges *)

\* the fee of the row is missing or is no number
FeeAbsent(r) == isnan(r.fee_cleaned) \/ is_str(r.fee_cleaned)

\* the row has no player, no year or no transfer window
Lacks(r) == isnan(r.player_name) \/ isnan(r.year) \/ isnan(r.transfer_period)

\* C12 (as claimed): the financial and the full builder never raise on a row
\* whose fee is missing or is no number, and once such a row is iterated the
\* graph holds its edge: an edge of fee 0 between the row's clubs in the
\* financial graph, an edge of the row's player in the full graph.
C12_AbsentFeeNeverRejected ==
    variant \in {"financial", "full"} =>
        /\ \A r \in raised : ~FeeAbsent(r)
        /\ \A r \in Rows :
              FeeAbsent(r) =>
                  IF variant = "financial"
                  THEN EdgeCount(G, FinEdgeEnds(r)[1], FinEdgeEnds(r)[2], "fee", 0) >= 1
                  ELSE EdgeCount(G, FullEdgeEnds(r)[1], FullEdgeEnds(r)[2],
                                 "player", Lower(r.player_name)) >= 1

\* C13 (as claimed): no edge of a financial, collapsed or full graph has a
\* negative fee.
C13_FeesNonNegative ==
    variant \in {"financial", "full"} =>
        /\ \A e \in BagToSet(G) : e.data["fee"] >= 0
        /\ \A e \in g : e.data["fee"] >= 0

\* C14: the full builder never gets past a row without player, year or
\* transfer window: no such row is among the rows it has handled, so no
\* network is returned for a table that holds one, and the build that met one
\* has raised.
C14_IncompleteRowFailsBuild ==
    variant = "full" =>
        /\ \A r \in Rows : ~Lacks(r)
        /\ \A r \in raised : pc = "raised"
        /\ pc \in {"loop", "done"} => raised = {}

\* a build that had added an edge and then raised on a row without a player
C14_Witness ==
    /\ variant = "full"
    /\ pc = "raised"
    /\ number_of_edges(G) >= 1
    /\ \E r \in raised : isnan(r.player_name) /\ ~isnan(r.year) /\ ~FeeAbsent(r)

\* C15 (as claimed): no aggregate network is returned for an empty range.
C15_EmptyRangeRaises == start_year > end_year => apc # "done"

\* C16 (as claimed): a row the financial builder iterates adds an edge unless
\* the graph has an edge of the same direction and the same fee.
C16_SkipsOnlySameFee ==
    [][ variant = "financial" =>
            \A r \in BagToSet(seen') :
                (/\ Iterates(r)
                 /\ EdgeCount(G, FinEdgeEnds(r)[1], FinEdgeEnds(r)[2],
                              "fee", fee_amount(r)) = 0) =>
                    EdgeCount(G', FinEdgeEnds(r)[1], FinEdgeEnds(r)[2],
                              "fee", fee_amount(r)) = 1
      ]_vars

----------------------------------------------------------------------------
(* Properties of the steps of name_cleaner *)

\* name_cleaner has returned
Cleaned == cpc \in {"cleaned", "recleaned"}

\* "man " is expanded at the start of the name and nowhere else
ExpandManAtStart(s) ==
    IF StartsWith(s, <<"m", "a", "n", " ">>)
    THEN <<"m", "a", "n", "c", "h", "e", "s", "t", "e", "r", " ">> \o SubSeq(s, 5, Len(s))
    ELSE s

\* the steps of name_cleaner that follow the expansion of "man "
StepsAfterExpansion(s) ==
    LookupAlias(CollapseSpaces(StripExclusions(StandardizeUnited(
        DropBTeam(StripAgeMarkers(s)), united_spellings))),
      club_name_mappings)

\* C17 (as claimed): the cleaned name is what the steps after the expansion
\* make of the lowercased, trimmed name with "man " expanded at its start
\* only.
C17_ExpandsManAtStartOnly ==
    Cleaned => cleaned = StepsAfterExpansion(ExpandManAtStart(Strip(Lower(name))))

\* C18 (as claimed): the marker U10 is removed like the marker U1: a name
\* that ends with U10 has the key of the name that ends with U1 instead.
C18_AgeMarkerWithZero ==
    (Cleaned /\ EndsWith(name, <<"U", "1", "0">>)) =>
        cleaned = name_cleaner(SubSeq(name, 1, Len(name) - 1))

\* C19 (as claimed): a name that ends with " b" and is followed by " U1" has
\* the key of the name without the " U1".
C19_BTeamBeforeAgeMarker ==
    (Cleaned /\ EndsWith(name, <<" ", "b", " ", "U", "1">>)) =>
        cleaned = name_cleaner(SubSeq(name, 1, Len(name) - 3))

\* C20 (as claimed): the cleaned name has no space at either end and no two
\* spaces in a row.
C20_NoSpareSpaces ==
    Cleaned => (Strip(cleaned) = cleaned /\ ~Contains(cleaned, <<" ", " ">>))

----------------------------------------------------------------------------
(* The order of the rows given to the full builder *)

\* the (u, v, player) triples of a graph
Triples(graph) == {<<e.u, e.v, e.data[player_key]>> : e \in BagToSet(graph)}

\* the (u, v, player) triple of a row of the full builder
RowTriple(r) == <<FullEdgeEnds(r)[1], FullEdgeEnds(r)[2], Lower(r.player_name)>>

\* C21: in whatever order the full builder has iterated its rows, the
\* (u, v, player) triples of its graph are the triples of the rows iterated:
\* they depend on which rows the table holds, not on the order of the rows.
C21_TriplesIgnoreRowOrder ==
    variant = "full" => Triples(G) = {RowTriple(r) : r \in Rows}

\* a table of three rows returned: the two sides of one transfer, of which
\* the later one was skipped, and a transfer of another player between the
\* same clubs
C21_Witness ==
    /\ variant = "full"
    /\ pc = "done"
    /\ \E r1 \in Rows, r2 \in Rows, r3 \in Rows :
          /\ r1.transfer_movement = "in" /\ r2.transfer_movement = "out"
          /\ RowTriple(r1) = RowTriple(r2)
          /\ FullEdgeEnds(r3) = FullEdgeEnds(r1)
          /\ RowTriple(r3) # RowTriple(r1)
    /\ BagCardinality(seen) = 3
    /\ Cardinality(Triples(G)) = 2

====
